---------------------------- MODULE Spec2Model ----------------------------
(***************************************************************************)
(* HAGHS v2.2 (Home Assistant Global Health Score): the HaghsSensor entity *)
(* of custom_components/haghs/sensor.py, its options flow and constants.   *)
(*                                                                         *)
(* The sensor object's fields are the variable `self`; the Home Assistant  *)
(* core it talks to (state machine, recorder, file system, config entry)   *)
(* is the variable `hass`.  async_update_sensor is a coroutine: it runs    *)
(* without interruption up to an await on the executor (the database-size  *)
(* and the log-size lookup) and is resumed later, so one evaluation is up  *)
(* to three atomic segments, and evaluations started by the timer, by an   *)
(* options reload and by the initial update interleave at those awaits.    *)
(***************************************************************************)
EXTENDS Integers, Sequences, FiniteSets, Bags, TLC

(***************************************************************************)
(* Python floats.  The score formulas mix ints with float literals (0.4,   *)
(* 0.6, int / int), so they are computed here as CPython computes them:    *)
(* IEEE-754 binary64, round to nearest, ties to even.  A non-negative      *)
(* double is [m, e] with value m * 2^e, m a natural number kept as a       *)
(* little-endian sequence of limbs in base 2^15 (TLC's integers are 32     *)
(* bits wide), either zero or with exactly 53 significant bits.            *)
(***************************************************************************)
LimbBits == 15

Base == 32768

MantBits == 53

Pow2(k) ==
    CASE k = 0 -> 1 [] k = 1 -> 2 [] k = 2 -> 4 [] k = 3 -> 8 [] k = 4 -> 16
      [] k = 5 -> 32 [] k = 6 -> 64 [] k = 7 -> 128 [] k = 8 -> 256
      [] k = 9 -> 512 [] k = 10 -> 1024 [] k = 11 -> 2048 [] k = 12 -> 4096
      [] k = 13 -> 8192 [] OTHER -> 16384

Min(a, b) == IF a <= b THEN a ELSE b

Max(a, b) == IF a >= b THEN a ELSE b

RECURSIVE BigTrim(_)
BigTrim(a) ==
    IF a = <<>> THEN <<>>
    ELSE IF a[Len(a)] = 0 THEN BigTrim(SubSeq(a, 1, Len(a) - 1)) ELSE a

RECURSIVE BigOfInt(_)
BigOfInt(n) == IF n = 0 THEN <<>> ELSE <<n % Base>> \o BigOfInt(n \div Base)

RECURSIVE BigToInt(_)
BigToInt(a) == IF a = <<>> THEN 0 ELSE Head(a) + Base * BigToInt(Tail(a))

RECURSIVE BigMulCarry(_, _, _)
BigMulCarry(a, n, c) ==
    IF a = <<>> THEN BigOfInt(c)
    ELSE LET t == Head(a) * n + c
         IN  <<t % Base>> \o BigMulCarry(Tail(a), n, t \div Base)

\* a * n for a small n (0 <= n < Base)
BigMulSmall(a, n) == BigTrim(BigMulCarry(a, n, 0))

RECURSIVE BigAddCarry(_, _, _)
BigAddCarry(a, b, c) ==
    IF a = <<>> /\ b = <<>> THEN BigOfInt(c)
    ELSE LET x == IF a = <<>> THEN 0 ELSE Head(a)
             y == IF b = <<>> THEN 0 ELSE Head(b)
             t == x + y + c
         IN  <<t % Base>> \o BigAddCarry(IF a = <<>> THEN a ELSE Tail(a),
                                         IF b = <<>> THEN b ELSE Tail(b),
                                         t \div Base)

BigAdd(a, b) == BigTrim(BigAddCarry(a, b, 0))

\* quotient and remainder of a by a small d (0 < d < Base)
RECURSIVE BigDivRem(_, _)
BigDivRem(a, d) ==
    IF a = <<>> THEN [q |-> <<>>, r |-> 0]
    ELSE LET hi == BigDivRem(Tail(a), d)
             t  == hi.r * Base + Head(a)
         IN  [q |-> <<t \div d>> \o hi.q, r |-> t % d]

RECURSIVE IntBits(_)
IntBits(n) == IF n = 0 THEN 0 ELSE 1 + IntBits(n \div 2)

\* the bit length of a
BigBitsJoin(high, limb) == IF high > 0 THEN LimbBits + high ELSE IntBits(limb)

RECURSIVE BigBits(_)
BigBits(a) == IF a = <<>> THEN 0 ELSE BigBitsJoin(BigBits(Tail(a)), Head(a))

BigShl(a, s) ==
    [i \in 1..(s \div LimbBits) |-> 0] \o BigMulSmall(a, Pow2(s % LimbBits))

\* a >> s, with sticky = "some bit shifted out was 1"
BigShr(a, s) ==
    LET k    == Min(s \div LimbBits, Len(a))
        low  == SubSeq(a, 1, k)
        rest == SubSeq(a, k + 1, Len(a))
        dr   == BigDivRem(rest, Pow2(s % LimbBits))
    IN  [q |-> BigTrim(dr.q),
         sticky |-> dr.r # 0 \/ \E i \in 1..k : low[i] # 0]

BigOdd(a) == a # <<>> /\ Head(a) % 2 = 1

\* q, or q + 1 when the bits shifted out (guard, then sticky) round it up
BigRoundEven(q, guard, sticky) ==
    IF guard /\ (sticky \/ BigOdd(q)) THEN BigAdd(q, <<1>>) ELSE q

\* sr is m >> (s - 1): the last shift, rounded
BigHalve(sr) == BigRoundEven(BigShr(sr.q, 1).q, BigOdd(sr.q), sr.sticky)

\* m >> s rounded to nearest, ties to even
BigShrRound(m, s) == IF s = 0 THEN BigTrim(m) ELSE BigHalve(BigShr(m, s - 1))

FloatZero == [m |-> <<>>, e |-> 0]

\* q * 2^e, q rounded to 53 bits or, when rounding carried, to 2^53
FloatPack(q, e) ==
    IF BigBits(q) > MantBits THEN [m |-> BigShr(q, 1).q, e |-> e + 1]
    ELSE [m |-> q, e |-> e]

\* m has L bits
FloatNormal(m, L, e) ==
    IF L = 0 THEN FloatZero
    ELSE IF L <= MantBits
    THEN [m |-> BigShl(m, MantBits - L), e |-> e - (MantBits - L)]
    ELSE FloatPack(BigShrRound(m, L - MantBits), e + (L - MantBits))

\* the double nearest to m * 2^e (round-half-even)
FloatRound(m, e) == FloatNormal(BigTrim(m), BigBits(m), e)

\* float(n) for an int n >= 0
FloatOfInt(n) == FloatRound(BigOfInt(n), 0)

\* x * n for a float x and an int n >= 0 (one correctly rounded product)
FloatMulInt(x, n) == FloatRound(BigMulSmall(x.m, n), x.e)

\* Bits kept below the quotient of FloatDivInt so that rounding sees them
DivGuardBits == 75

\* c / t for ints c >= 0, t > 0 (Python's true division, correctly rounded)
FloatDivInt(c, t) ==
    LET dr == BigDivRem(BigShl(BigOfInt(c), DivGuardBits), t)
        m  == BigAdd(BigMulSmall(BigTrim(dr.q), 2),
                     IF dr.r # 0 THEN <<1>> ELSE <<>>)
    IN  FloatRound(m, 0 - DivGuardBits - 1)

\* x + y (one correctly rounded sum)
FloatAdd(x, y) ==
    IF x.m = <<>> THEN y
    ELSE IF y.m = <<>> THEN x
    ELSE LET e == Min(x.e, y.e)
         IN  FloatRound(BigAdd(BigShl(x.m, x.e - e), BigShl(y.m, y.e - e)), e)

\* int(x): truncation, x >= 0
FloatInt(x) ==
    IF x.e >= 0 THEN BigToInt(BigShl(x.m, x.e))
    ELSE BigToInt(BigShr(x.m, 0 - x.e).q)

\* x > n for an int n >= 0
FloatGtInt(x, n) ==
    LET fl == FloatInt(x)
    IN  fl > n \/ (fl = n /\ x.e < 0 /\ BigShr(x.m, 0 - x.e).sticky)

\* round(x, d) as an integer number of 10^-d units, k = 10^d: Python rounds
\* the exact value of the double, ties to even
FloatRoundScaled(x, k) ==
    LET m == BigMulSmall(x.m, k)
    IN  IF x.e >= 0 THEN BigToInt(BigShl(m, x.e))
        ELSE BigToInt(BigShrRound(m, 0 - x.e))

(***************************************************************************)
(* Python values.  None is <<>> and any other optional value x is <<x>>.   *)
(* A dict is a function from its keys.                                     *)
(***************************************************************************)
None == <<>>

Some(x) == <<x>>

EmptyDict == [k \in {} |-> 0]

DictGet(d, k, default) == IF k \in DOMAIN d THEN d[k] ELSE default

DictSet(d, k, v) == [x \in (DOMAIN d) \cup {k} |-> IF x = k THEN v ELSE d[x]]

\* `if x:` for an optional string: None and "" are falsy
Truthy(x) == x # None /\ x[1] # ""

(***************************************************************************)
(* const.py                                                                *)
(***************************************************************************)
CONF_UPDATE_INTERVAL == "update_interval"

CONF_STORAGE_TYPE == "storage_type"

CONF_LOG_FILE == "log_file"

CONF_IGNORE_LABEL == "haghs_ignore"

DEFAULT_UPDATE_INTERVAL == 5

DEFAULT_STORAGE_TYPE == "SSD/NVMe"

STORAGE_TYPES == {"SD Card", "SSD/NVMe", "HDD", "Virtual/Container"}

(***************************************************************************)
(* homeassistant.const                                                     *)
(***************************************************************************)
STATE_UNAVAILABLE == "unavailable"

STATE_UNKNOWN == "unknown"

STATE_ON == "on"

(***************************************************************************)
(* Substring tests of sensor.py, tabulated over the strings of this model: *)
(* `"SSD" in storage_type` (lines 156, 157, 184), `"SD" in storage_type`   *)
(* (line 211: "SSD/NVMe" contains "SD" too), `"haghs_ignore" in entity_id` *)
(* (lines 225, 248), `"sqlite://" in db_url` (line 280), and State.domain, *)
(* the part of the entity_id before the dot.                               *)
(***************************************************************************)
InSSD(storage_type) == storage_type \in {"SSD/NVMe"}

InSD(storage_type) == storage_type \in {"SD Card", "SSD/NVMe"}

EntityIds == {"sensor.kitchen_temperature", "sensor.haghs_ignore_probe",
              "update.home_assistant_core", "update.haghs_ignore_addon"}

InIgnore(entity_id) ==
    entity_id \in {"sensor.haghs_ignore_probe", "update.haghs_ignore_addon"}

domain(entity_id) ==
    IF entity_id \in {"update.home_assistant_core", "update.haghs_ignore_addon"}
    THEN "update" ELSE "sensor"

InSqlite(db_url) == db_url \in {"sqlite:////config/home-assistant_v2.db"}

(***************************************************************************)
(* A state of the state machine, as hass.states.get returns it: None, or a *)
(* State whose .state is a string.  float(state) succeeds on a numeric     *)
(* string and raises ValueError on any other; the numeric strings of the   *)
(* model are integers, kept in val.                                        *)
(***************************************************************************)
Text(s) == Some([state |-> s, val |-> 0])

Numeric(v) == Some([state |-> "numeric", val |-> v])

IsFloat(st) == st.state = "numeric"

(***************************************************************************)
(* Recommendations are the f-strings of sensor.py: the fixed text is the   *)
(* kind, the interpolated number is arg.                                   *)
(***************************************************************************)
Rec(kind, arg) == [kind |-> kind, arg |-> arg]

(***************************************************************************)
(* Sizes.  os.path.getsize(path) / 1024 / 1024 and the database limits     *)
(* 1000 + entities * 2.5 and limit * 1.5 are exact in binary64 for the     *)
(* sizes of the model, which are whole quarters of a MB: every size is     *)
(* kept as an integer number of quarter MB.                                *)
(***************************************************************************)
QuarterMB == 4

MB(n) == n * QuarterMB

\* round(x) of a size: Python rounds halves to even
RoundMB(q) ==
    LET n == q \div QuarterMB
        r == q % QuarterMB
    IN  IF r * 2 < QuarterMB THEN n
        ELSE IF r * 2 > QuarterMB THEN n + 1
        ELSE IF n % 2 = 0 THEN n ELSE n + 1

(***************************************************************************)
(* sensor.py 126-168: _calc_hardware_score.  It has no await that          *)
(* suspends, so it is one step: the score and the recommendations it       *)
(* appends to self._recommendations, in order.                             *)
(***************************************************************************)
Available(st) ==
    st # None /\ st[1].state \notin {STATE_UNAVAILABLE, STATE_UNKNOWN}

\* lines 129-149: A. PSI logic, with the CPU fallback
_hw_load(states) ==
    IF Available(states.psi)
    THEN IF IsFloat(states.psi[1]) /\ states.psi[1].val > 5
         THEN [penalty |-> 20,
               recs |-> <<Rec("System Choking", states.psi[1].val)>>]
         ELSE [penalty |-> 0, recs |-> <<>>]
    ELSE IF Available(states.cpu) /\ IsFloat(states.cpu[1])
                                  /\ states.cpu[1].val > 85
         THEN [penalty |-> 20,
               recs |-> <<Rec("High CPU Load", states.cpu[1].val)>>]
         ELSE [penalty |-> 0, recs |-> <<>>]

\* B. disk usage with `score += 50` for `score -= 50` at line 160
_hw_disk_sign_slip(states, storage_type) ==
    IF Available(states.disk) /\ IsFloat(states.disk[1])
    THEN LET free_gb        == states.disk[1].val
             limit_critical == IF InSSD(storage_type) THEN 5 ELSE 8
             limit_warn     == IF InSSD(storage_type) THEN 15 ELSE 20
         IN  IF free_gb < limit_critical
             THEN [penalty |-> 0 - 50, recs |-> <<Rec("CRITICAL Storage", free_gb)>>]
             ELSE IF free_gb < limit_warn
             THEN [penalty |-> 10, recs |-> <<Rec("Low Storage", free_gb)>>]
             ELSE [penalty |-> 0, recs |-> <<>>]
    ELSE [penalty |-> 0, recs |-> <<>>]

\* lines 151-166: B. disk usage
_hw_disk(states, storage_type) ==
    IF Available(states.disk) /\ IsFloat(states.disk[1])
    THEN LET free_gb        == states.disk[1].val
             limit_critical == IF InSSD(storage_type) THEN 5 ELSE 8
             limit_warn     == IF InSSD(storage_type) THEN 15 ELSE 20
         IN  IF free_gb < limit_critical
             THEN [penalty |-> 50, recs |-> <<Rec("CRITICAL Storage", free_gb)>>]
             ELSE IF free_gb < limit_warn
             THEN [penalty |-> 10, recs |-> <<Rec("Low Storage", free_gb)>>]
             ELSE [penalty |-> 0, recs |-> <<>>]
    ELSE [penalty |-> 0, recs |-> <<>>]

_calc_hardware_score(states, storage_type) ==
    LET load == _hw_load(states)
        disk == _hw_disk(states, storage_type)
    IN  [score |-> Max(0, 100 - load.penalty - disk.penalty),
         recs  |-> load.recs \o disk.recs]

(***************************************************************************)
(* hass.states.async_all(): a list of State objects.  Entities that agree  *)
(* in everything the sensor reads are kept as one run [entity_id, state,   *)
(* skipped, n] of n >= 1 entities (their ids differ in a suffix the sensor *)
(* never looks at); the list is the sequence of its runs.  `skipped` is    *)
(* state.attributes.get("skipped") is True.                                *)
(***************************************************************************)
Run(entity_id, state, skipped, n) ==
    [entity_id |-> entity_id, state |-> state, skipped |-> skipped, n |-> n]

RECURSIVE len(_)
len(runs) == IF runs = <<>> THEN 0 ELSE Head(runs).n + len(Tail(runs))

\* runs[:k]
RECURSIVE Take(_, _)
Take(runs, k) ==
    IF runs = <<>> \/ k = 0 THEN <<>>
    ELSE IF Head(runs).n >= k THEN <<[Head(runs) EXCEPT !.n = k]>>
    ELSE <<Head(runs)>> \o Take(Tail(runs), k - Head(runs).n)

\* lines 222-227: the update entities that are on, not ignored, not skipped
IsPendingUpdate(st) ==
    /\ domain(st.entity_id) = "update" /\ st.state = STATE_ON
    /\ ~(InIgnore(st.entity_id) \/ st.skipped)

\* lines 245-250 without the test of line 248
IsZombie_without_ignore(st) == st.state \in {STATE_UNAVAILABLE, STATE_UNKNOWN}

\* lines 245-250: the entities that are unavailable or unknown, not ignored
IsZombie(st) ==
    /\ st.state \in {STATE_UNAVAILABLE, STATE_UNKNOWN}
    /\ ~InIgnore(st.entity_id)

(***************************************************************************)
(* The float expressions of sensor.py.                                     *)
(***************************************************************************)
\* the literals 0.4 and 0.6 (line 112): the doubles nearest to 4/10, 6/10
Float04 == FloatDivInt(4, 10)

Float06 == FloatDivInt(6, 10)

\* line 112 with the two weights exchanged
global_score_weights_exchanged(hw_score, app_score) ==
    FloatInt(FloatAdd(FloatMulInt(Float06, hw_score),
                      FloatMulInt(Float04, app_score)))

\* line 112: int((hw_score * 0.4) + (app_score * 0.6))
global_score(hw_score, app_score) ==
    FloatInt(FloatAdd(FloatMulInt(Float04, hw_score),
                      FloatMulInt(Float06, app_score)))

\* line 258: (zombie_count / total_entities) * 100
zombie_ratio(zombie_count, total_entities) ==
    FloatMulInt(FloatDivInt(zombie_count, total_entities), 100)

\* lines 265-267 with one point per percent: int(zombie_ratio) at line 265
zombie_deduction_per_percent(ratio) == Max(1, Min(25, FloatInt(ratio)))

\* lines 265-267: max(1, min(25, int(zombie_ratio * 2)))
zombie_deduction(ratio) == Max(1, Min(25, FloatInt(FloatMulInt(ratio, 2))))

(***************************************************************************)
(* The sensor and what it published.  A context c is [self, ha]: self is   *)
(* the HaghsSensor object (lines 46-58), ha the state last written to the  *)
(* state machine by async_write_ha_state: native_value (line 87) and a     *)
(* copy of extra_state_attributes (line 91).                               *)
(*                                                                         *)
(* Line 119 puts the list object self._recommendations itself into the     *)
(* attributes, and the written state holds the same object.  self.shared   *)
(* says that self._recommendations still is that object (no evaluation     *)
(* has rebound it, line 103, since the last publication): an append then   *)
(* shows in all three.                                                     *)
(***************************************************************************)
AppendRecs(c, recs) ==
    IF recs = <<>> THEN c
    ELSE LET all == c.self.recommendations \o recs
         IN  IF c.self.shared
             THEN [self |-> [c.self EXCEPT !.recommendations = all,
                                           !.attributes = DictSet(@, "recommendations", all)],
                   ha   |-> [c.ha EXCEPT !.attributes = DictSet(@, "recommendations", all)]]
             ELSE [c EXCEPT !.self.recommendations = all]

\* self._attributes[key] = value
SetAttr(c, key, value) ==
    [c EXCEPT !.self.attributes = DictSet(@, key, value)]

(***************************************************************************)
(* One evaluation, async_update_sensor (lines 101-123), is a coroutine.    *)
(* It runs from its start to the executor job of the database-size lookup  *)
(* (line 292 under line 193), from there to the executor job of the        *)
(* log-size lookup (line 292 under line 239), and from there to its end;   *)
(* a lookup that needs no executor job does not suspend it.  Each of the   *)
(* three segments maps a context and the coroutine's locals f to           *)
(* [c, f, at]: at is "db" or "log" (suspended there), "done" (state        *)
(* written) or "raised" (an exception left async_update_sensor).           *)
(***************************************************************************)
\* lines 116-123: the state and the attributes written, and what the
\* evaluation computed
Attributes(c, f, app_score) ==
    [score_hardware    |-> f.hw_score,
     score_application |-> app_score,
     recommendations   |-> c.self.recommendations,
     storage_type      |-> c.self.storage_type,
     last_updated      |-> "now"]

_publish(c, f, zombie_count, deduction, app_score, global) ==
    [c  |-> [self |-> [c.self EXCEPT !.state = Some(global),
                                     !.attributes = Attributes(c, f, app_score),
                                     !.shared = TRUE],
             ha   |-> [state |-> Some(global),
                       attributes |-> Attributes(c, f, app_score)]],
     f  |-> [hw_score |-> f.hw_score, app_score |-> app_score,
             global_score |-> global, total_entities |-> f.total_entities,
             zombie_count |-> zombie_count, zombie_deduction |-> deduction,
             update_count |-> f.update_count,
             update_deduction |-> f.update_deduction],
     at |-> "done"]

\* lines 274 and 111-112: max(0, score), then the global formula
_global(c, f, zombie_count, deduction, app_score) ==
    _publish(c, f, zombie_count, deduction, app_score,
             global_score(f.hw_score, app_score))

\* lines 261-272, with the ratio of line 258
_zombie_scoring(c, zombie_count, ratio) ==
    IF zombie_count > 0
    THEN [c |-> IF FloatGtInt(ratio, 5)
                THEN AppendRecs(c, <<Rec("High Zombie Ratio",
                                         FloatRoundScaled(ratio, 10))>>)
                ELSE c,
          deduction |-> zombie_deduction(ratio)]
    ELSE [c |-> c, deduction |-> 0]

\* lines 257-259
_zombie_ratio(c, zombie_count, ratio) ==
    _zombie_scoring(SetAttr(c, "zombie_ratio_percent", FloatRoundScaled(ratio, 100)),
                    zombie_count, ratio)

\* lines 252-272: what the zombies cost, [c, deduction]
_zombie_count(c, f, zombies, zombie_count) ==
    IF f.total_entities > 0
    THEN _zombie_ratio(SetAttr(SetAttr(c, "zombie_entities", Take(zombies, 20)),
                               "zombie_count", zombie_count),
                       zombie_count, zombie_ratio(zombie_count, f.total_entities))
    ELSE [c |-> SetAttr(SetAttr(c, "zombie_entities", Take(zombies, 20)),
                        "zombie_count", zombie_count),
          deduction |-> 0]

_zombies_scored(z, f, zombie_count) ==
    _global(z.c, f, zombie_count, z.deduction, Max(0, f.score - z.deduction))

_zombies(c, f, zombies) ==
    _zombies_scored(_zombie_count(c, f, zombies, len(zombies)), f, len(zombies))

\* lines 244-274 and 111-123: E. zombie ratio, then the global formula and
\* the publication
_zombies_and_publish(c, f) == _zombies(c, f, SelectSeq(f.all_states, IsZombie))

(***************************************************************************)
(* lines 287-292: _get_file_size.  A file of the model is [exists, size,   *)
(* getsize_raises]: os.path.exists(path), its size, and whether            *)
(* os.path.getsize raises OSError although exists answered True (the file  *)
(* is rotated away or made unreadable between the two calls).  The result  *)
(* is [raised, mb]: the exception reaches the awaiting caller.             *)
(***************************************************************************)
File(exists, size, getsize_raises) ==
    [exists |-> exists, size |-> size, getsize_raises |-> getsize_raises]

_get_file_size(file) ==
    IF ~file.exists THEN [raised |-> FALSE, mb |-> None]
    ELSE IF file.getsize_raises THEN [raised |-> TRUE, mb |-> None]
    ELSE [raised |-> FALSE, mb |-> Some(file.size)]

\* line 240: log_size and log_size > 50
LogTooLarge(log_size) ==
    log_size.mb # None /\ log_size.mb[1] # 0 /\ log_size.mb[1] > MB(50)

\* lines 240-242, entered with the result of the await of line 239; nothing
\* catches an exception of _get_file_size here
_after_log(c, f, log_size) ==
    IF log_size.raised THEN [c |-> c, f |-> f, at |-> "raised"]
    ELSE _zombies_and_publish(
             IF LogTooLarge(log_size) THEN AppendRecs(c, <<Rec("Log file", 50)>>)
             ELSE c,
             IF LogTooLarge(log_size) THEN [f EXCEPT !.score = @ - 5] ELSE f)

(***************************************************************************)
(* recorder.get_instance(hass): it raises (raises), or returns an instance *)
(* with db_url and, each optional (hasattr), commit_interval, keep_days.   *)
(***************************************************************************)
Recorder(raises, db_url, commit_interval, keep_days) ==
    [raises |-> raises, db_url |-> db_url,
     commit_interval |-> commit_interval, keep_days |-> keep_days]

\* lines 207-219: B. recorder audit
_recorder_audit(rec, storage_type) ==
    IF rec.raises THEN [penalty |-> 0, recs |-> <<>>]
    ELSE LET commit == rec.commit_interval # None
                       /\ rec.commit_interval[1] < 30 /\ InSD(storage_type)
             keep   == rec.keep_days # None /\ rec.keep_days[1] > 30
         IN  [penalty |-> (IF commit THEN 2 ELSE 0) + (IF keep THEN 5 ELSE 0),
              recs |-> (IF commit THEN <<Rec("Recorder commit_interval", 30)>> ELSE <<>>)
                       \o (IF keep THEN <<Rec("Recorder keep_days", rec.keep_days[1])>>
                           ELSE <<>>)]

\* lines 194-205 with the deductions of lines 199 and 202 exchanged
_db_size_deductions_exchanged(c, f, db_size_mb) ==
    IF db_size_mb # None /\ db_size_mb[1] # 0
    THEN LET c1 == SetAttr(SetAttr(c, "db_size_mb",
                                   [unknown |-> FALSE, mb |-> db_size_mb[1]]),
                           "db_limit_dynamic", f.final_limit_warn)
         IN  IF db_size_mb[1] > f.final_limit_crit
             THEN [c |-> AppendRecs(c1, <<Rec("Database Critical",
                                              RoundMB(f.final_limit_crit))>>),
                   penalty |-> 5]
             ELSE IF db_size_mb[1] > f.final_limit_warn
             THEN [c |-> AppendRecs(c1, <<Rec("Database large",
                                              RoundMB(f.final_limit_warn))>>),
                   penalty |-> 20]
             ELSE [c |-> c1, penalty |-> 0]
    ELSE [c |-> SetAttr(c, "db_size_mb", [unknown |-> TRUE, mb |-> 0]),
          penalty |-> 0]

\* lines 194-205: the database size against the dynamic limit
_db_size(c, f, db_size_mb) ==
    IF db_size_mb # None /\ db_size_mb[1] # 0
    THEN LET c1 == SetAttr(SetAttr(c, "db_size_mb",
                                   [unknown |-> FALSE, mb |-> db_size_mb[1]]),
                           "db_limit_dynamic", f.final_limit_warn)
         IN  IF db_size_mb[1] > f.final_limit_crit
             THEN [c |-> AppendRecs(c1, <<Rec("Database Critical",
                                              RoundMB(f.final_limit_crit))>>),
                   penalty |-> 20]
             ELSE IF db_size_mb[1] > f.final_limit_warn
             THEN [c |-> AppendRecs(c1, <<Rec("Database large",
                                              RoundMB(f.final_limit_warn))>>),
                   penalty |-> 5]
             ELSE [c |-> c1, penalty |-> 0]
    ELSE [c |-> SetAttr(c, "db_size_mb", [unknown |-> TRUE, mb |-> 0]),
          penalty |-> 0]

\* lines 221-235: C. updates
_updates(c, f) ==
    LET pending_updates == SelectSeq(f.all_states, IsPendingUpdate)
        count           == len(pending_updates)
    IN  IF pending_updates # <<>>
        THEN [c |-> AppendRecs(SetAttr(SetAttr(c, "pending_updates", pending_updates),
                                       "update_count", count),
                               IF count > 0 THEN <<Rec("Updates pending", count)>>
                               ELSE <<>>),
              count |-> count, penalty |-> Min(15, count * 2)]
        ELSE [c |-> c, count |-> 0, penalty |-> 0]

\* lines 237-239: D. log file, up to the await of line 239
_log_file(upd, f) ==
    IF Truthy(upd.c.self.log_file_path)
    THEN [c |-> upd.c,
          f |-> [f EXCEPT !.score = @ - upd.penalty,
                          !.update_count = upd.count,
                          !.update_deduction = upd.penalty,
                          !.path = upd.c.self.log_file_path[1]],
          at |-> "log"]
    ELSE _zombies_and_publish(upd.c,
                              [f EXCEPT !.score = @ - upd.penalty,
                                        !.update_count = upd.count,
                                        !.update_deduction = upd.penalty])

\* lines 207-235: the audit's result, then C. updates
_audited(db, audit, f) ==
    _log_file(_updates(AppendRecs(db.c, audit.recs), f),
              [f EXCEPT !.score = @ - db.penalty - audit.penalty])

_audit(db, f, h) ==
    _audited(db, _recorder_audit(h.recorder, db.c.self.storage_type), f)

\* lines 194-239, entered with the result of the await of line 193 (a size
\* or None), up to the await of line 239.  hass is read as it is now.
_after_db(c, f, db_size_mb, h) == _audit(_db_size(c, f, db_size_mb), f, h)

\* lines 276-285: _get_database_size up to its await: "await" when the size
\* is asked of the executor, else the None it returns at once
_get_database_size(rec) ==
    IF rec.raises THEN "None"
    ELSE IF InSqlite(rec.db_url) THEN "await" ELSE "None"

\* lines 284-285 around the await of line 282: an exception of the lookup
\* is caught and None returned
_database_size_result(file) ==
    LET r == _get_file_size(file) IN IF r.raised THEN None ELSE r.mb

\* lines 179-191: the dynamic database limit and its hardware caps
final_limit_warn(total_entities, storage_type) ==
    IF InSSD(storage_type)
    THEN Min(MB(1000) + total_entities * 10, MB(8000))
    ELSE Min(MB(1000) + total_entities * 10, MB(2500))

final_limit_crit(limit_warn) == (limit_warn * 3) \div 2

\* line 193: the call of _get_database_size
_await_database_size(c, f, h) ==
    IF _get_database_size(h.recorder) = "await"
    THEN [c |-> c, f |-> f, at |-> "db"]
    ELSE _after_db(c, f, None, h)

\* lines 172-191: the locals of _calc_app_score
_app_score_locals(c, hw_score, total_entities, limit_warn, h) ==
    _await_database_size(
        SetAttr(c, "total_entities", total_entities),
        [hw_score |-> hw_score, score |-> 100, all_states |-> h.all_states,
         total_entities |-> total_entities,
         final_limit_warn |-> limit_warn,
         final_limit_crit |-> final_limit_crit(limit_warn),
         update_count |-> 0, update_deduction |-> 0, path |-> ""],
        h)

\* lines 106-109: the hardware score, then _calc_app_score
_hardware_scored(c, hw, total_entities, h) ==
    _app_score_locals(AppendRecs(c, hw.recs), hw.score, total_entities,
                      final_limit_warn(total_entities, c.self.storage_type), h)

_hardware(c, h) ==
    _hardware_scored(c, _calc_hardware_score(h.states, c.self.storage_type),
                     len(h.all_states), h)

\* lines 104-193: async_update_sensor without the assignment of line 103
_start_without_reset(c, h) == _hardware(c, h)

\* lines 103-193: async_update_sensor from its start to the await of
\* line 193
_start(c, h) ==
    _hardware([c EXCEPT !.self.recommendations = <<>>, !.self.shared = FALSE], h)

\* the coroutine r, suspended at "db" or "log", runs its next segment with
\* the result of its executor job
_resume(r, h) ==
    IF r.at = "db"
    THEN _after_db(r.c, r.f, _database_size_result(h.files.db), h)
    ELSE IF r.at = "log"
    THEN _after_log(r.c, r.f, _get_file_size(h.files.log))
    ELSE r

\* an evaluation that no other one interleaves with and during which hass
\* does not change: the three segments in a row
async_update_sensor_alone(c, h) == _resume(_resume(_start(c, h), h), h)

(***************************************************************************)
(* State.                                                                  *)
(*   self      the HaghsSensor object                                      *)
(*   ha_state  the state last written by async_write_ha_state              *)
(*   hass      what the sensor reads: the states of the three system       *)
(*             monitor sensors, the list of all states, the recorder, the  *)
(*             database file and the log file                              *)
(*   entry     the config entry: data (setup flow) and options             *)
(*   timer     the period async_track_time_interval was registered with,   *)
(*             None before async_added_to_hass                             *)
(*   frames    the suspended async_update_sensor coroutines, a bag of      *)
(*             [f, at, lone, stable]                                       *)
(*   evals     evaluations started so far                                  *)
(*   changes   changes of hass so far                                      *)
(*   last      how the evaluation that ended last ended: at ("none",       *)
(*             "done", "raised"), its locals f, and history notes          *)
(* lone (no other evaluation was in flight while this one ran), stable     *)
(* (neither hass nor the options changed while it ran) and last are        *)
(* history, read by the properties only.                                   *)
(***************************************************************************)
VARIABLES self, ha_state, hass, entry, timer, frames, evals, changes, last

vars == <<self, ha_state, hass, entry, timer, frames, evals, changes, last>>

\* evaluations started in one behaviour
MaxEvals == 2

\* changes of hass in one behaviour
MaxChanges == 1

\* lines 44-58: __init__
HaghsSensor(config_entry) ==
    [storage_type    |-> DictGet(config_entry.data, CONF_STORAGE_TYPE, "SSD/NVMe"),
     update_interval |-> DictGet(config_entry.data, CONF_UPDATE_INTERVAL,
                                 DEFAULT_UPDATE_INTERVAL),
     log_file_path   |-> DictGet(config_entry.data, CONF_LOG_FILE, None),
     state           |-> None,
     attributes      |-> EmptyDict,
     recommendations |-> <<>>,
     shared          |-> FALSE]

\* lines 79-83: _update_from_options
_update_from_options(s, config_entry) ==
    [s EXCEPT
       !.storage_type = DictGet(config_entry.options, CONF_STORAGE_TYPE,
                                DictGet(config_entry.data, CONF_STORAGE_TYPE, None)),
       !.update_interval = DictGet(config_entry.options, CONF_UPDATE_INTERVAL,
                                   DictGet(config_entry.data, CONF_UPDATE_INTERVAL, None)),
       !.log_file_path = DictGet(config_entry.options, CONF_LOG_FILE,
                                 DictGet(config_entry.data, CONF_LOG_FILE, None))]

\* no state written yet
NoState == [state |-> None, attributes |-> EmptyDict]

NoEvaluation == [at |-> "none", f |-> EmptyDict, lone |-> FALSE, stable |-> FALSE,
                 before |-> None]

RECURSIVE BagSum(_, _)
BagSum(S, fs) ==
    IF S = {} THEN 0
    ELSE LET y == CHOOSE y \in S : TRUE IN fs[y] + BagSum(S \ {y}, fs)

\* the note `field` of a suspended coroutine is withdrawn
Withdraw(x, field) == [x EXCEPT ![field] = FALSE]

\* the bag fs with the note `field` of every coroutine withdrawn
Withdrawn(fs, field) ==
    LET F == BagToSet(fs)
    IN  [x \in {Withdraw(y, field) : y \in F} |->
            BagSum({y \in F : Withdraw(y, field) = x}, fs)]

\* every suspended coroutine has been interleaved with
NotLone(fs) == Withdrawn(fs, "lone")

\* hass or the options changed under every suspended coroutine
NotStable(fs) == Withdrawn(fs, "stable")

\* the outcome r of a segment becomes the next state; fs are the other
\* suspended coroutines and keep is what stays on record if this one suspends
Settle(r, fs, lone, stable, keep) ==
    /\ self' = r.c.self
    /\ ha_state' = r.c.ha
    /\ IF r.at \in {"db", "log"}
       THEN /\ frames' = fs (+) SetToBag({[f |-> r.f, at |-> r.at,
                                           lone |-> lone, stable |-> stable]})
            /\ last' = keep
       ELSE /\ frames' = fs
            /\ last' = [at |-> r.at, f |-> r.f, lone |-> lone, stable |-> stable,
                        before |-> ha_state.state]

\* a call of async_update_sensor on the sensor s: its first segment
Call(s, fs, keep) ==
    /\ evals < MaxEvals
    /\ evals' = evals + 1
    /\ Settle(_start([self |-> s, ha |-> ha_state], hass), NotLone(fs),
              frames = EmptyBag, TRUE, keep)

\* lines 60-72: async_added_to_hass
async_added_to_hass ==
    /\ timer = None
    /\ LET s == IF entry.options # EmptyDict
                THEN _update_from_options(self, entry) ELSE self
       IN  /\ timer' = Some(s.update_interval)
           /\ Call(s, frames, last)
    /\ UNCHANGED <<hass, entry, changes>>

\* line 68: the interval timer calls async_update_sensor(now)
async_track_time_interval ==
    /\ timer # None
    /\ Call(self, frames, last)
    /\ UNCHANGED <<hass, entry, timer, changes>>

(***************************************************************************)
(* config_flow.py 64-87: HaghsOptionsFlowHandler.async_step_init with a    *)
(* user_input creates the entry, which stores user_input as the entry's    *)
(* options and calls the update listener registered at line 65 of          *)
(* sensor.py, async_reload_entry (lines 74-77).  The schema (lines 77-83)  *)
(* requires storage_type and update_interval; log_file is optional.        *)
(***************************************************************************)
LogPath == "/config/home-assistant.log"

UserInput(storage_type, update_interval, log_file) ==
    LET required == [k \in {CONF_STORAGE_TYPE, CONF_UPDATE_INTERVAL} |->
                        IF k = CONF_STORAGE_TYPE THEN storage_type
                        ELSE update_interval]
    IN  IF log_file = None THEN required
        ELSE DictSet(required, CONF_LOG_FILE, log_file)

OptionInputs == {UserInput("SSD/NVMe", 10, Some(LogPath))}

async_reload_entry(config_entry) ==
    Call(_update_from_options(self, config_entry), NotStable(frames),
         [last EXCEPT !.stable = FALSE])

async_step_init ==
    /\ timer # None
    /\ \E user_input \in OptionInputs :
          /\ entry' = [entry EXCEPT !.options = user_input]
          /\ async_reload_entry(entry')
    /\ UNCHANGED <<hass, timer, changes>>

\* a suspended coroutine is resumed with the result of its executor job
Resume(x) ==
    Settle(_resume([c |-> [self |-> self, ha |-> ha_state], f |-> x.f, at |-> x.at],
                   hass),
           frames (-) SetToBag({x}), x.lone, x.stable, last)

\* line 193: the await of _get_database_size returns
_get_database_size_returns ==
    /\ \E x \in BagToSet(frames) : x.at = "db" /\ Resume(x)
    /\ UNCHANGED <<hass, entry, timer, evals, changes>>

\* line 239: the await of _get_file_size returns, or raises
_get_file_size_returns ==
    /\ \E x \in BagToSet(frames) : x.at = "log" /\ Resume(x)
    /\ UNCHANGED <<hass, entry, timer, evals, changes>>

(***************************************************************************)
(* The installations of the model.                                         *)
(***************************************************************************)
SqliteUrl == "sqlite:////config/home-assistant_v2.db"

MysqlUrl == "mysql://hass@db/homeassistant"

\* an entity list: z zombies, iz ignore-tagged sensors in state izs, u pending
\* updates, iu ignore-tagged updates in state ius, su skipped pending
\* updates, ok healthy entities
Population(z, iz, izs, u, iu, ius, su, ok) ==
    SelectSeq(<<Run("sensor.kitchen_temperature", STATE_UNAVAILABLE, FALSE, z),
                Run("sensor.haghs_ignore_probe", izs, FALSE, iz),
                Run("update.home_assistant_core", STATE_ON, FALSE, u),
                Run("update.haghs_ignore_addon", ius, FALSE, iu),
                Run("update.home_assistant_core", STATE_ON, TRUE, su),
                Run("sensor.kitchen_temperature", "21.5", FALSE, ok)>>,
              LAMBDA r : r.n > 0)

Hass(psi, cpu, disk, all_states, rec, db, log) ==
    [states |-> [psi |-> psi, cpu |-> cpu, disk |-> disk],
     all_states |-> all_states, recorder |-> rec,
     files |-> [db |-> db, log |-> log]]

\* nothing to report
Healthy ==
    Hass(Numeric(1), Numeric(10), Numeric(100),
         Population(0, 0, STATE_UNKNOWN, 0, 0, STATE_ON, 0, 100),
         Recorder(FALSE, SqliteUrl, Some(30), Some(10)),
         File(TRUE, MB(500), FALSE), File(TRUE, MB(1), FALSE))

\* every penalty at once
Degraded ==
    Hass(Numeric(6), Numeric(90), Numeric(4),
         Population(20, 1, STATE_UNKNOWN, 8, 1, STATE_ON, 1, 69),
         Recorder(FALSE, SqliteUrl, Some(1), Some(365)),
         File(TRUE, MB(9000), FALSE), File(TRUE, MB(51), FALSE))

\* every read fails
Unreadable ==
    Hass(Text(STATE_UNAVAILABLE), Text("n/a"), Text(STATE_UNKNOWN),
         Population(1, 0, STATE_UNKNOWN, 1, 0, STATE_ON, 0, 0),
         Recorder(FALSE, SqliteUrl, None, None),
         File(TRUE, MB(500), TRUE), File(TRUE, MB(51), TRUE))

\* no system monitor, no recorder, no files
Bare ==
    Hass(None, Numeric(90), None, Population(0, 0, STATE_UNKNOWN, 0, 0, STATE_ON, 0, 0),
         Recorder(TRUE, MysqlUrl, None, None),
         File(FALSE, 0, FALSE), File(FALSE, 0, FALSE))

Snapshots == {Healthy, Degraded, Unreadable, Bare}

Entries ==
    {[data |-> UserInput("SD Card", 5, None), options |-> EmptyDict],
     [data |-> UserInput("SD Card", 5, None),
      options |-> UserInput("HDD", 10, Some(LogPath))]}

\* the state machine, the recorder or a file changes
StateChanged ==
    /\ changes < MaxChanges
    /\ changes' = changes + 1
    /\ \E h \in Snapshots \ {hass} : hass' = h
    /\ frames' = NotStable(frames)
    /\ last' = [last EXCEPT !.stable = FALSE]
    /\ UNCHANGED <<self, ha_state, entry, timer, evals>>

Init ==
    /\ hass \in Snapshots
    /\ entry \in Entries
    /\ self = HaghsSensor(entry)
    /\ ha_state = NoState
    /\ timer = None
    /\ frames = EmptyBag
    /\ evals = 0
    /\ changes = 0
    /\ last = NoEvaluation

Next ==
    \/ async_added_to_hass
    \/ async_track_time_interval
    \/ async_step_init
    \/ _get_database_size_returns
    \/ _get_file_size_returns
    \/ StateChanged

Spec == Init /\ [][Next]_vars

(***************************************************************************)
(* SpecEval: async_update_sensor as a function of what it reads.  The      *)
(* sensor has been added (timer registered), and every step is one whole   *)
(* evaluation that nothing interleaves with: the first on the installation *)
(* drawn by InitEval, each later one after one input has got worse (or an  *)
(* ignore-tagged entity has recovered).                                    *)
(***************************************************************************)
\* zombies in an entity list
MaxZombies == 26

\* pending updates in an entity list
MaxUpdates == 9

\* entities that change in one step
MaxTurned == 2

Case(psi, cpu, disk, all_states, rec, db, log, storage_type, log_file) ==
    [h |-> Hass(psi, cpu, disk, all_states, rec, db, log),
     e |-> [data |-> UserInput(storage_type, DEFAULT_UPDATE_INTERVAL, log_file),
            options |-> EmptyDict]]

Unreadables == {None, Text(STATE_UNAVAILABLE), Text(STATE_UNKNOWN), Text("n/a")}

PsiValues == {5, 6}

CpuValues == {85, 86}

DiskValues == {4, 5, 7, 8, 14, 15, 19, 20}

NominalPopulation == Population(0, 0, STATE_UNKNOWN, 0, 0, STATE_ON, 0, 100)

NominalRecorder == Recorder(FALSE, SqliteUrl, Some(30), Some(30))

NominalDb == File(TRUE, MB(500), FALSE)

NominalLog == File(TRUE, MB(50), FALSE)

\* every reading of the three system monitor sensors, under every storage type
HardwareCases ==
    {Case(psi, cpu, disk, NominalPopulation, NominalRecorder, NominalDb,
          NominalLog, st, None) :
        psi \in Unreadables \cup {Numeric(v) : v \in PsiValues},
        cpu \in (Unreadables \ {Text(STATE_UNKNOWN)}) \cup {Numeric(v) : v \in CpuValues},
        disk \in (Unreadables \ {Text(STATE_UNKNOWN)}) \cup {Numeric(v) : v \in DiskValues},
        st \in STORAGE_TYPES}

\* entity lists: totals, zombies and ignore-tagged sensors
Totals == {1, 3, 100, 200, 1000, 3000}

ZombieCases ==
    {Case(Numeric(5), Numeric(85), Numeric(20),
          Population(z, iz, izs, 0, 0, STATE_ON, 0, t - z - iz),
          NominalRecorder, NominalDb, NominalLog, "SD Card", None) :
        t \in Totals, z \in 0..MaxZombies, iz \in 0..1,
        izs \in {STATE_UNKNOWN, STATE_UNAVAILABLE, "21.5"}}

\* entity lists: pending, ignore-tagged and skipped updates
UpdateCases ==
    {Case(Numeric(5), Numeric(85), Numeric(20),
          Population(z, 0, STATE_UNKNOWN, u, iu, ius, su, 100 - z - u - iu - su),
          NominalRecorder, NominalDb, NominalLog, "SD Card", None) :
        z \in {0, 5}, u \in 0..MaxUpdates, iu \in 0..1, ius \in {STATE_ON, "off"},
        su \in 0..1}

\* database sizes around the limits of 100, 1000 and 3000 entities
DbSizes ==
    {0, MB(1)} \cup
    UNION {{MB(n), MB(n) + 1} : n \in {1250, 1875, 2500, 3500, 3750, 5250, 8000, 12000}}

DatabaseCases ==
    {Case(Numeric(5), Numeric(85), Numeric(20),
          Population(0, 0, STATE_UNKNOWN, 0, 0, STATE_ON, 0, t),
          NominalRecorder, File(TRUE, size, FALSE), NominalLog, st, None) :
        t \in {100, 1000, 3000}, size \in DbSizes, st \in STORAGE_TYPES}

\* recorders, database urls and missing database files
RecorderCases ==
    {Case(Numeric(5), Numeric(85), Numeric(20), NominalPopulation,
          Recorder(raises, url, commit, keep), File(exists, MB(9000), FALSE),
          NominalLog, st, None) :
        raises \in BOOLEAN, url \in {SqliteUrl, MysqlUrl},
        commit \in {None, Some(29), Some(30)}, keep \in {None, Some(30), Some(31)},
        exists \in BOOLEAN, st \in STORAGE_TYPES}

\* log files and log file paths
LogCases ==
    {Case(Numeric(5), Numeric(85), Numeric(20), NominalPopulation,
          NominalRecorder, NominalDb, File(exists, size, FALSE), "SD Card", path) :
        exists \in BOOLEAN, size \in {0, MB(50), MB(50) + 1},
        path \in {None, Some(""), Some(LogPath)}}

\* every hardware score with every application score: the readings that give
\* the six hardware scores, the six sums of the other penalties, and the
\* zombies that give every zombie deduction
Rung(rec, db, u, log_file) == [rec |-> rec, db |-> db, u |-> u, log_file |-> log_file]

Rungs ==
    {Rung(NominalRecorder, NominalDb, 0, None),
     Rung(NominalRecorder, File(TRUE, MB(9000), FALSE), 0, None),
     Rung(Recorder(FALSE, SqliteUrl, Some(1), Some(30)), File(TRUE, MB(9000), FALSE), 0, None),
     Rung(Recorder(FALSE, SqliteUrl, Some(1), Some(31)), File(TRUE, MB(9000), FALSE), 0, None),
     Rung(Recorder(FALSE, SqliteUrl, Some(1), Some(31)), File(TRUE, MB(9000), FALSE), 8, None),
     Rung(Recorder(FALSE, SqliteUrl, Some(1), Some(31)), File(TRUE, MB(9000), FALSE), 8,
          Some(LogPath))}

ScoreCases ==
    {Case(Numeric(psi), Numeric(85), Numeric(disk),
          Population(z, 0, STATE_UNKNOWN, r.u, 0, STATE_ON, 0, 200 - z - r.u),
          r.rec, r.db, File(TRUE, MB(51), FALSE), "SD Card", r.log_file) :
        psi \in PsiValues, disk \in {7, 19, 20}, r \in Rungs, z \in 0..MaxZombies}

EvalCases ==
    HardwareCases \cup ZombieCases \cup UpdateCases \cup DatabaseCases
        \cup RecorderCases \cup LogCases \cup ScoreCases

\* last also notes the step that led to the evaluation and, as prior, the
\* locals of the evaluation before it
NoComparison ==
    [at |-> "none", f |-> EmptyDict, lone |-> FALSE, stable |-> FALSE,
     before |-> None, step |-> "none", prior |-> EmptyDict]

InitEval ==
    /\ \E case \in EvalCases :
          /\ hass = case.h
          /\ entry = case.e
          /\ self = HaghsSensor(case.e)
          /\ timer = Some(HaghsSensor(case.e).update_interval)
    /\ ha_state = NoState
    /\ frames = EmptyBag
    /\ evals = 0
    /\ changes = 0
    /\ last = NoComparison

\* the installation is h and r is the outcome of one whole evaluation on it
Evaluated(r, h, step) ==
    /\ self' = r.c.self
    /\ ha_state' = r.c.ha
    /\ last' = [at |-> r.at, f |-> r.f, lone |-> TRUE, stable |-> TRUE,
                before |-> None, step |-> step, prior |-> last.f]
    /\ hass' = h
    /\ UNCHANGED <<entry, timer, frames, evals>>

EvaluateOn(h, step) ==
    Evaluated(async_update_sensor_alone([self |-> self, ha |-> ha_state], h), h, step)

\* the initial update
Evaluate == last.at = "none" /\ EvaluateOn(hass, "first") /\ UNCHANGED changes

\* the installation changes into h, another one of the model, and the sensor
\* evaluates again
Becomes(h, step) ==
    /\ last.at = "done"
    /\ changes < MaxChanges
    /\ changes' = changes + 1
    /\ [h |-> h, e |-> entry] \in EvalCases
    /\ EvaluateOn(h, step)

IsNumeric(st) == st # None /\ IsFloat(st[1])

\* a higher pressure or CPU load reading
WorsenLoad ==
    \/ /\ IsNumeric(hass.states.psi)
       /\ \E v \in PsiValues :
             /\ v > hass.states.psi[1].val
             /\ Becomes([hass EXCEPT !.states.psi = Numeric(v)], "load")
    \/ /\ IsNumeric(hass.states.cpu)
       /\ \E v \in CpuValues :
             /\ v > hass.states.cpu[1].val
             /\ Becomes([hass EXCEPT !.states.cpu = Numeric(v)], "load")

\* less free disk space
WorsenDisk ==
    /\ IsNumeric(hass.states.disk)
    /\ \E v \in DiskValues :
          /\ v < hass.states.disk[1].val
          /\ Becomes([hass EXCEPT !.states.disk = Numeric(v)], "disk")

\* the run of the entities that are entity_id in state st, skipped or not
CountOf(runs, entity_id, st, skipped) ==
    len(SelectSeq(runs, LAMBDA r : r.entity_id = entity_id /\ r.state = st
                                   /\ r.skipped = skipped))

\* k entities that were healthy are now entity_id in state st: the list of
\* the same length with k more of them
Turned(runs, k, to) ==
    LET z   == CountOf(runs, "sensor.kitchen_temperature", STATE_UNAVAILABLE, FALSE)
        u   == CountOf(runs, "update.home_assistant_core", STATE_ON, FALSE)
        su  == CountOf(runs, "update.home_assistant_core", STATE_ON, TRUE)
        ok  == CountOf(runs, "sensor.kitchen_temperature", "21.5", FALSE)
        ig  == SelectSeq(runs, LAMBDA r : r.entity_id = "sensor.haghs_ignore_probe")
        igu == SelectSeq(runs, LAMBDA r : r.entity_id = "update.haghs_ignore_addon")
    IN  Population(IF to = "zombie" THEN z + k ELSE z,
                   len(ig), IF ig = <<>> THEN STATE_UNKNOWN ELSE ig[1].state,
                   IF to = "update" THEN u + k ELSE u,
                   len(igu), IF igu = <<>> THEN STATE_ON ELSE igu[1].state,
                   su, ok - k)

\* more entities are unavailable
MoreZombies ==
    \E k \in 1..MaxTurned :
       /\ CountOf(hass.all_states, "sensor.kitchen_temperature", "21.5", FALSE) >= k
       /\ Becomes([hass EXCEPT !.all_states = Turned(@, k, "zombie")], "zombies")

\* more updates are pending
MoreUpdates ==
    \E k \in 1..MaxTurned :
       /\ CountOf(hass.all_states, "sensor.kitchen_temperature", "21.5", FALSE) >= k
       /\ Becomes([hass EXCEPT !.all_states = Turned(@, k, "update")], "updates")

\* the database has grown
LargerDatabase ==
    /\ hass.files.db.exists
    /\ \E size \in DbSizes :
          /\ size > hass.files.db.size
          /\ Becomes([hass EXCEPT !.files.db.size = size], "database")

\* an ignore-tagged entity that was unavailable, unknown or a pending update
\* is healthy again
IsAiling(r) ==
    InIgnore(r.entity_id) /\ r.state \in {STATE_UNAVAILABLE, STATE_UNKNOWN, STATE_ON}

Healed(runs) ==
    [i \in 1..Len(runs) |->
        IF IsAiling(runs[i])
        THEN [runs[i] EXCEPT !.state = IF domain(runs[i].entity_id) = "update"
                                       THEN "off" ELSE "21.5"]
        ELSE runs[i]]

IgnoredRecovers ==
    /\ \E i \in 1..Len(hass.all_states) : IsAiling(hass.all_states[i])
    /\ Becomes([hass EXCEPT !.all_states = Healed(@)], "recovers")

NextEval ==
    \/ Evaluate
    \/ WorsenLoad
    \/ WorsenDisk
    \/ MoreZombies
    \/ MoreUpdates
    \/ LargerDatabase
    \/ IgnoredRecovers

SpecEval == InitEval /\ [][NextEval]_vars

(***************************************************************************)
(* Properties of Spec.                                                     *)
(***************************************************************************)
\* what one evaluation alone yields on a newly constructed sensor with the
\* configuration in force, reading hass as it is
Reference ==
    async_update_sensor_alone(
        [self |-> [HaghsSensor(entry) EXCEPT
                     !.storage_type = self.storage_type,
                     !.update_interval = self.update_interval,
                     !.log_file_path = self.log_file_path],
         ha |-> NoState], hass)

Published == ha_state.state # None

\* C1: after any sequence of evaluations and options reloads, on every
\* snapshot and storage type, the published overall score, score_hardware
\* and score_application are integers in 0..100.
C1_ScoresInRange ==
    Published =>
        /\ ha_state.state[1] \in 0..100
        /\ ha_state.attributes.score_hardware \in 0..100
        /\ ha_state.attributes.score_application \in 0..100

\* the lowest scores the sensor can publish, published after a reload
C1_Witness ==
    /\ Published /\ last.at = "done"
    /\ entry.options \in OptionInputs
    /\ ha_state.attributes.score_hardware = 30
    /\ ha_state.attributes.score_application < 50
    /\ ha_state.state[1] < 50

\* C3: no error is fatal to an evaluation: whatever the readings and
\* whichever lookup raises, async_update_sensor runs to completion and
\* publishes; no exception leaves it.
C3_NoErrorFatal == last.at # "raised"

\* C4: an evaluation that no other one overlaps publishes the overall score,
\* the two sub-scores and the recommendations that the same snapshot and
\* configuration yield on a newly constructed sensor, whatever was evaluated
\* before it (and it fails only if that one fails).
C4_HistoryIndependent ==
    (last.at # "none" /\ last.lone /\ last.stable) =>
        /\ Reference.at = last.at
        /\ last.at = "done" =>
              /\ ha_state.state = Reference.c.ha.state
              /\ ha_state.attributes.score_hardware
                    = Reference.c.ha.attributes.score_hardware
              /\ ha_state.attributes.score_application
                    = Reference.c.ha.attributes.score_application
              /\ ha_state.attributes.recommendations
                    = Reference.c.ha.attributes.recommendations

\* a lone evaluation has published a score other than the one that an
\* earlier evaluation had published
C4_Witness ==
    /\ last.at = "done" /\ last.lone /\ last.stable
    /\ last.before # None /\ last.before # ha_state.state
    /\ ha_state.attributes.recommendations # <<>>

\* C8: also when evaluations overlap, the recommendations published are those
\* a lone evaluation of the same snapshot produces: none lost, none twice.
C8_SelfContained ==
    (last.at = "done" /\ last.stable /\ Reference.at = "done") =>
        ha_state.attributes.recommendations
            = Reference.c.ha.attributes.recommendations

\* C9: the attributes published with the score hold the diagnostics of the
\* evaluation: zombie count, ratio and entities, database size, entity count.
C9_DiagnosticsPublished ==
    last.at = "done" =>
        /\ {"zombie_count", "zombie_entities", "db_size_mb", "total_entities"}
              \subseteq DOMAIN ha_state.attributes
        /\ last.f.total_entities > 0 =>
              "zombie_ratio_percent" \in DOMAIN ha_state.attributes

\* C10: the period of the interval timer is the configured update interval,
\* also after an options update.
C10_TimerFollowsInterval ==
    timer # None => timer[1] = self.update_interval

(***************************************************************************)
(* Properties of SpecEval.                                                 *)
(***************************************************************************)
\* C2: the overall score published by an evaluation is
\* floor(0.4 * score_hardware + 0.6 * score_application) of the sub-scores
\* it publishes, that is (4 * hw + 6 * app) div 10.
C2_WeightedFloor ==
    last.at = "done" =>
        ha_state.state
            = Some((4 * ha_state.attributes.score_hardware
                    + 6 * ha_state.attributes.score_application) \div 10)

\* sub-scores whose weighted sum, 47.8, is no integer
C2_Witness ==
    /\ last.at = "done"
    /\ ha_state.attributes.score_hardware = 70
    /\ ha_state.attributes.score_application = 33
    /\ ha_state.state = Some(47)

\* C5: when one input got worse and nothing else changed, the sub-score it
\* belongs to did not go up: score_hardware after a higher pressure or CPU
\* load or less free disk space, score_application after more zombies, more
\* pending updates or a larger database.
C5_Monotone ==
    last.at = "done" =>
        /\ last.step \in {"load", "disk"} =>
              ha_state.attributes.score_hardware <= last.prior.hw_score
        /\ last.step \in {"zombies", "updates", "database"} =>
              ha_state.attributes.score_application <= last.prior.app_score

\* the database grew from within its limit to beyond the critical one, and
\* score_application fell by 20
C5_Witness ==
    /\ last.at = "done" /\ last.step = "database"
    /\ ha_state.attributes.score_application = last.prior.app_score - 20

\* the entities that carry no ignore marker
eligible(all_states) ==
    len(SelectSeq(all_states, LAMBDA st : ~InIgnore(st.entity_id)))

\* 5 of 100 entities unavailable, none ignored, everything else nominal
FiveOfHundred ==
    /\ hass.all_states = Population(5, 0, STATE_UNKNOWN, 0, 0, STATE_ON, 0, 95)
    /\ hass.files.db = NominalDb /\ hass.recorder = NominalRecorder
    /\ self.log_file_path = None

\* C6 as stated: the zombie penalty is
\* min(40, (zombie_count / max(1, total_eligible)) * 100), 5 with 5 of 100
\* unavailable, and score_application is then 95.
C6_AsStated ==
    last.at = "done" =>
        /\ last.f.zombie_deduction * Max(1, eligible(hass.all_states))
              = Min(40 * Max(1, eligible(hass.all_states)),
                    100 * last.f.zombie_count)
        /\ FiveOfHundred =>
              /\ last.f.zombie_deduction = 5
              /\ ha_state.attributes.score_application = 95

\* C6: the zombie penalty is 0 without zombies and otherwise two points per
\* percent of all entities, floor(200 * zombie_count / total_entities), at
\* least 1 and at most 25; with 5 of 100 unavailable it is 10 and
\* score_application is 90.
C6_TwoPerPercent ==
    last.at = "done" =>
        /\ last.f.zombie_deduction
              = IF last.f.zombie_count > 0 /\ last.f.total_entities > 0
                THEN Max(1, Min(25, (200 * last.f.zombie_count)
                                        \div last.f.total_entities))
                ELSE 0
        /\ last.f.total_entities = len(hass.all_states)
        /\ ha_state.attributes.score_application
              <= 100 - last.f.zombie_deduction
        /\ FiveOfHundred =>
              /\ last.f.zombie_deduction = 10
              /\ ha_state.attributes.score_application = 90

\* 5 of 100 unavailable: the penalty is 10
C6_Witness ==
    /\ last.at = "done" /\ FiveOfHundred
    /\ last.f.zombie_count = 5 /\ last.f.total_entities = 100
    /\ last.f.zombie_deduction = 10
    /\ ha_state.attributes.score_application = 90

\* C7: an entity with the haghs_ignore marker is not counted: after such an
\* entity that was unavailable, unknown or a pending update has recovered,
\* the zombie count, the pending-update count and their two penalties are
\* what they were.
C7_IgnoredNotCounted ==
    (last.at = "done" /\ last.step = "recovers") =>
        /\ last.f.zombie_count = last.prior.zombie_count
        /\ last.f.update_count = last.prior.update_count
        /\ last.f.zombie_deduction = last.prior.zombie_deduction
        /\ last.f.update_deduction = last.prior.update_deduction

\* an ignored update entity is no longer pending, next to zombies and
\* pending updates that count
C7_Witness ==
    /\ last.at = "done" /\ last.step = "recovers"
    /\ last.f.zombie_count > 0 /\ last.f.update_count > 0
    /\ \E i \in 1..Len(hass.all_states) :
          /\ InIgnore(hass.all_states[i].entity_id)
          /\ hass.all_states[i].state = "off"

=============================================================================
